---- MODULE Spec2Model ----
(***************************************************************************)
(* A model of the m-as terminal monitor: the shared AppState (process      *)
(* list, selection/scroll cursor, CPU histories) behind one Mutex, the     *)
(* background sampler thread and the foreground input/render loop of       *)
(* tui::run, the rolling histories of CpuInfo and MemoryInfo, and the      *)
(* process fetch + sort of process.rs.                                     *)
(*                                                                         *)
(* usize values are held by their two's-complement representative: a small *)
(* natural n stands for n, a negative -k stands for 2^64 - k.  Addition    *)
(* and subtraction modulo 2^64 are then integer addition and subtraction   *)
(* (all magnitudes in the model stay far below 2^63), and the unsigned     *)
(* order is given by ULt/UGe below.                                        *)
(***************************************************************************)
EXTENDS Integers, Sequences, FiniteSets, TLC

VARIABLES
    processes,        \* AppState.processes (tui.rs:29)
    selected_process, \* AppState.selected_process (tui.rs:30)
    scroll_offset,    \* AppState.scroll_offset (tui.rs:31)
    cpu_info,         \* AppState.cpu_info / the CpuInfo of cpu::main
    lock,             \* holder of the Mutex around AppState: "none", "sampler", "main"
    poisoned,         \* the Mutex's poison flag
    pcS,              \* position of the sampler thread (tui.rs:69-91)
    now,              \* sampler local `now` (tui.rs:74)
    last_cpu_update,  \* sampler local `last_cpu_update` (tui.rs:70)
    system,           \* CpuInfo::update local `system` after refresh_cpu_all (cpu.rs:81-85)
    core_i,           \* index of the loop over system.cpus() (cpu.rs:95)
    pcM,              \* position of the main thread (tui.rs:94-133)
    visible_height,   \* main local `visible_height` (tui.rs:94, 126)
    overflow_checks,  \* build profile: TRUE = arithmetic overflow panics, FALSE = it wraps
    clock,            \* monotonic time in ms, as read by Instant::now()
    cpu_updates,      \* number of completed CpuInfo::update calls
    prev_processes,   \* the list produced by the previous process refresh
    memory_info,      \* the MemoryInfo of memory.rs
    mem_updates,      \* number of completed MemoryInfo::update calls
    last_op,          \* the transition taken last, where a specification records it
    max_items,        \* render_process_section local `max_items` (tui.rs:341)
    adjusted_scroll   \* render_process_section local `adjusted_scroll` (tui.rs:343-349)

vars == <<processes, selected_process, scroll_offset, cpu_info, lock, poisoned,
          pcS, now, last_cpu_update, system, core_i, pcM, visible_height,
          overflow_checks, clock, cpu_updates, prev_processes, memory_info,
          mem_updates, last_op, max_items, adjusted_scroll>>

cursorVars == <<selected_process, scroll_offset>>
samplerLocals == <<now, last_cpu_update, system, core_i>>
cpuVars == <<cpu_info, cpu_updates>>
memVars == <<memory_info, mem_updates>>
renderLocals == <<max_items, adjusted_scroll>>

----------------------------------------------------------------------------
(* Bounds of the model *)

MaxPid == 2            \* pids of the two-thread specification are 1..MaxPid
MaxTablePid == 3       \* pids of the process-table specification are 1..MaxTablePid
NumCores == 2          \* cores the OS reports at startup
MaxTermHeight == 6     \* terminal heights range over 3..MaxTermHeight
MaxClock == 1350       \* time horizon of the two-thread specification, ms
MaxUsage == 150        \* largest usage value the OS source hands out
MaxPushes == 62        \* updates per history in the history specification
MaxMem == 2            \* memory sizes in the process-table specification are 1..MaxMem
MaxLen == 10           \* longest process list of the cursor specification
MaxCursorHeight == 9   \* terminal heights of the cursor specification are 3..MaxCursorHeight
MaxOvershoot == 9      \* a pacing sleep lasts PacingMs or (1 + MaxOvershoot) * PacingMs
MaxBytes == 2           \* memory and swap counters range over 0..MaxBytes
MaxMemUpdates == 1      \* refreshes of the memory specification
MaxMainUpdates == 2     \* updates of cpu::main on which the OS reports a busy machine
MaxWinLen == 4          \* longest process list of the window specification
MaxWinCursor == 5       \* selected_process and scroll_offset there range over 0..MaxWinCursor
MaxArea == 7            \* panel heights there range over 0..MaxArea
MaxHandleUpdates == 3   \* CpuInfo::update calls of the handle specification
MaxSamplerClock == 2600 \* time horizon of the sampler specification, ms
MaxCoreUpdates == 2     \* CpuInfo::update calls of the core-table specification

(* Program constants *)

HistoryCap == 60           \* cpu.rs:90, 99; memory.rs:67, 70
cpu_update_interval == 1000 \* tui.rs:71
SettleMs == 250            \* cpu.rs:84
PacingMs == 50             \* tui.rs:89
HeaderRows == 4            \* tui.rs:94, 126

----------------------------------------------------------------------------
(* usize arithmetic *)

ULt(a, b) == IF (a < 0) = (b < 0) THEN a < b ELSE b < 0
UGe(a, b) == ~ULt(a, b)
UMin(a, b) == IF ULt(b, a) THEN b ELSE a
SaturatingSub(a, b) == IF ULt(a, b) THEN 0 ELSE a - b
SubOverflows(a, b) == ULt(a, b)
AddOverflows(a, b) == \/ a < 0 /\ b < 0
                      \/ a < 0 /\ b >= 0 /\ a + b >= 0
                      \/ b < 0 /\ a >= 0 /\ a + b >= 0

Min(a, b) == IF a < b THEN a ELSE b
Max(a, b) == IF a > b THEN a ELSE b
Range(s) == {s[k] : k \in 1..Len(s)}

----------------------------------------------------------------------------
(* process.rs: the process table *)

Pids == 1..MaxPid

\* The memory the OS reports for a pid in the two-thread specification: it
\* grows with the pid, so a fetch in pid order is reordered by the sort.
MemOf(p) == (p + 2) \div 2

\* OS process tables: pid -> memory.  memory_mb = bytes / 1024 / 1024 in f64
\* is monotone and keeps equal values equal, so memory is held as one number.
OsTablesFixed == {[p \in S |-> MemOf(p)] : S \in SUBSET Pids}
OsTables == UNION {[S -> 1..MaxMem] : S \in SUBSET (1..MaxTablePid)}

\* The orders in which a HashMap over the pids S can be iterated.
Orders(S) == {o \in [1..Cardinality(S) -> S] : Range(o) = S}

\* get_all_processes: one Process per entry of system.processes(), in the
\* map's iteration order.
get_all_processes(os, order) ==
    [k \in 1..Len(order) |-> [pid |-> order[k], memory_mb |-> os[order[k]]]]

\* The comparator of sort_by_memory, b.memory_mb.partial_cmp(&a.memory_mb):
\* TRUE when a may stay in front of b (Less or Equal).
MemoryOrderAscending(a, b) == a.memory_mb <= b.memory_mb
MemoryOrder(a, b) == a.memory_mb >= b.memory_mb

\* slice::sort_by is a stable sort: an element is placed behind every element
\* that may stay in front of it.
RECURSIVE InsertSorted(_, _)
InsertSorted(sorted, x) ==
    IF sorted = <<>> THEN <<x>>
    ELSE IF MemoryOrder(Head(sorted), x)
         THEN <<Head(sorted)>> \o InsertSorted(Tail(sorted), x)
         ELSE <<x>> \o sorted

RECURSIVE sort_by_memory(_)
sort_by_memory(ps) ==
    IF ps = <<>> THEN <<>>
    ELSE InsertSorted(sort_by_memory(SubSeq(ps, 1, Len(ps) - 1)), ps[Len(ps)])

----------------------------------------------------------------------------
(* tui.rs: the selection / scroll cursor *)

\* KeyCode::Down (tui.rs:103-105)
MoveDownSelected(sel, len) ==
    IF ULt(sel, SaturatingSub(len, 1)) THEN sel + 1 ELSE sel

\* KeyCode::Down (tui.rs:106-108), sel being the selection after 103-105
MoveDownScroll(sel, scroll, vh) ==
    IF UGe(sel, scroll + vh) THEN sel - vh + 1 ELSE scroll

\* KeyCode::Up (tui.rs:112-114)
MoveUpSelectedUnguarded(sel) == sel - 1
MoveUpSelected(sel) == IF ULt(0, sel) THEN sel - 1 ELSE sel

\* KeyCode::Up (tui.rs:115-117), sel being the selection after 112-114
MoveUpScroll(sel, scroll) == IF ULt(sel, scroll) THEN sel ELSE scroll

\* `height as usize - 4` (tui.rs:94, 126)
VisibleHeight(h) == h - HeaderRows

TermHeights == 3..MaxTermHeight

\* Heights the layout may give the process panel of a frame of height h:
\* Percentage(60) of the frame (tui.rs:141), then the full height of the
\* left half (tui.rs:150); the solver's rounding is not fixed by the source.
ProcAreaHeights(h) == {(h * 60) \div 100, (h * 60 + 99) \div 100}

\* render_process_section: block.inner drops the two border rows, then
\* `inner_area.height as usize - 2` (tui.rs:340-341)
InnerHeight(area_h) == SaturatingSub(area_h, 2)
MaxItems(area_h) == InnerHeight(area_h) - 2

\* tui.rs:342, items being max_items
RenderScroll(scroll, len, items) ==
    UMin(scroll, SaturatingSub(len, items))

\* tui.rs:343-349, scroll being the scroll_offset of tui.rs:342
AdjustedScrollByOne(sel, scroll, items) ==
    IF ULt(sel, scroll) THEN sel
    ELSE IF UGe(sel, scroll + items) THEN scroll + 1
    ELSE scroll
AdjustedScroll(sel, scroll, items) ==
    IF ULt(sel, scroll) THEN sel
    ELSE IF UGe(sel, scroll + items) THEN sel - items + 1
    ELSE scroll

----------------------------------------------------------------------------
(* cpu.rs: CpuInfo and its rolling histories *)

\* push_back, then pop_front when the length exceeds 60 (cpu.rs:89-92, 98-101;
\* memory.rs:63-72)
PushHistoryNoEvict(h, v) == Append(h, v)
PushHistory(h, v) ==
    LET h2 == Append(h, v)
    IN  IF Len(h2) > HistoryCap THEN Tail(h2) ELSE h2

\* CpuCore::new(format!("Core {}", i + 1)) for the i-th cpu, i from 0
CpuCoreNew(i) == [name |-> <<"Core", i + 1>>, usage |-> 0, history |-> <<>>]

\* CpuInfo::new on a machine reporting n cpus
CpuInfoNew(n) ==
    [global_usage |-> 0, history |-> <<>>, cores |-> [k \in 1..n |-> CpuCoreNew(k - 1)]]

\* cpu.rs:88-92
UpdateGlobal(ci, sys) ==
    [ci EXCEPT !.global_usage = sys.global,
               !.history = PushHistory(@, sys.global)]

\* One round of the loop at cpu.rs:95-103, for index i from 0:
\* self.cores.get_mut(i) is None past the cores known at construction.
UpdateCoreGrowing(ci, sys, i) ==
    IF i < Len(ci.cores)
    THEN [ci EXCEPT !.cores[i + 1] =
            [@ EXCEPT !.usage = sys.cpus[i + 1],
                      !.history = PushHistory(@, sys.cpus[i + 1])]]
    ELSE [ci EXCEPT !.cores =
            Append(@, [name |-> <<"Core", i + 1>>, usage |-> sys.cpus[i + 1],
                       history |-> <<sys.cpus[i + 1]>>])]
UpdateCore(ci, sys, i) ==
    IF i < Len(ci.cores)
    THEN [ci EXCEPT !.cores[i + 1] =
            [@ EXCEPT !.usage = sys.cpus[i + 1],
                      !.history = PushHistory(@, sys.cpus[i + 1])]]
    ELSE ci

RECURSIVE UpdateCoresFrom(_, _, _)
UpdateCoresFrom(ci, sys, i) ==
    IF i >= Len(sys.cpus) THEN ci
    ELSE UpdateCoresFrom(UpdateCore(ci, sys, i), sys, i + 1)

\* CpuInfo::update after the settle sleep, given what refresh_cpu_all read
CpuInfoUpdate(ci, sys) == UpdateCoresFrom(UpdateGlobal(ci, sys), sys, 0)

UsageVals == {0, MaxUsage}
\* What a fresh System reads: one global usage and one usage per cpu.
Readings(n) == [global : UsageVals, cpus : [1..n -> UsageVals]]
NoSystem == [global |-> 0, cpus |-> <<>>]

----------------------------------------------------------------------------
(* memory.rs: MemoryInfo *)

\* f32 values: a finite number, or what a division by zero yields.
F32(v) == [class |-> "finite", value |-> v]
NaN == [class |-> "nan", value |-> 0]
Infinity == [class |-> "inf", value |-> 0]

\* (num as f32 / den as f32) * 100.0; the model's readings keep the quotient
\* exact.  A zero denominator gives NaN (0/0) or infinity (x/0); no panic.
Percent(num, den) ==
    IF den = 0 THEN (IF num = 0 THEN NaN ELSE Infinity)
    ELSE F32((num * 100) \div den)

\* MemoryInfo::new on a System that read r (memory.rs:27-40)
MemoryInfoNew(r) ==
    [total_memory |-> r.total, used_memory |-> r.used, memory_history |-> <<>>,
     total_swap |-> r.total_swap, used_swap |-> r.used_swap, swap_history |-> <<>>,
     available_memory |-> r.available]

\* memory.rs:51-54: the percent from available memory
MemoryPercent(r) == Percent(SaturatingSub(r.total, r.available), r.total)

\* memory.rs:56-61
SwapPercentUnguarded(r) == Percent(r.used_swap, r.total_swap)
SwapPercent(r) ==
    IF r.total_swap > 0 THEN Percent(r.used_swap, r.total_swap) ELSE F32(0)

\* MemoryInfo::update when refresh_memory read r (memory.rs:42-73)
MemoryInfoUpdate(mi, r) ==
    LET memory_percent == MemoryPercent(r)
        swap_percent == SwapPercent(r)
    IN  [total_memory |-> r.total, used_memory |-> r.used,
         memory_history |-> PushHistory(mi.memory_history, memory_percent),
         total_swap |-> r.total_swap, used_swap |-> r.used_swap,
         swap_history |-> PushHistory(mi.swap_history, swap_percent),
         available_memory |-> r.available]

\* MemoryInfo::current_memory_percent (memory.rs:115-117)
current_memory_percent(mi) == Percent(mi.used_memory, mi.total_memory)

\* MemoryInfo::current_swap_percent (memory.rs:119-125)
current_swap_percent(mi) ==
    IF mi.total_swap > 0 THEN Percent(mi.used_swap, mi.total_swap) ELSE F32(0)

\* The percent memory_usage_text formats (memory.rs:92-96); the System it
\* asks for available memory is the one the last refresh left.
memory_usage_percent(mi) ==
    Percent(SaturatingSub(mi.total_memory, mi.available_memory), mi.total_memory)

\* What refresh_memory can read: every counter anywhere in 0..MaxBytes.
MemReadings ==
    [total : 0..MaxBytes, used : 0..MaxBytes, available : 0..MaxBytes,
     total_swap : 0..MaxBytes, used_swap : 0..MaxBytes]

\* The OS counters as a stream: what the n-th read returns.  The samplers
\* never inspect a value they store, so each read gets a value that tells it
\* from every other read a history can hold at the same time.
CpuStream(n) ==
    [global |-> n % (MaxUsage + 1),
     cpus |-> [k \in 1..NumCores |-> (n + k) % (MaxUsage + 1)]]
MemStream(n) ==
    [total |-> 100, used |-> (3 * n) % 101, available |-> n % 101,
     total_swap |-> 100, used_swap |-> (7 * n) % 101]

----------------------------------------------------------------------------
(* tui::run: the initial state *)

\* AppState::new (tui.rs:35-45) on some OS process table, Mutex::new,
\* thread::spawn (tui.rs:63-70) and `terminal.size()?.height as usize - 4`
\* (tui.rs:94) on a terminal of some height.
Init ==
    \E os \in OsTablesFixed, h \in TermHeights, oc \in BOOLEAN :
      \E order \in Orders(DOMAIN os) :
        /\ processes = sort_by_memory(get_all_processes(os, order))
        /\ selected_process = 0
        /\ scroll_offset = 0
        /\ cpu_info = CpuInfoNew(NumCores)
        /\ lock = "none"
        /\ poisoned = FALSE
        /\ pcS = "loop"
        /\ now = 0
        /\ last_cpu_update = 0
        /\ system = NoSystem
        /\ core_i = 0
        /\ overflow_checks = oc
        /\ pcM = IF oc /\ SubOverflows(h, HeaderRows) THEN "panicking" ELSE "events"
        /\ visible_height = IF oc /\ SubOverflows(h, HeaderRows) THEN 0 ELSE VisibleHeight(h)
        /\ clock = 0
        /\ cpu_updates = 0
        /\ prev_processes = processes
        /\ memory_info = MemoryInfoNew(MemStream(0))
        /\ mem_updates = 0
        /\ max_items = 0
        /\ adjusted_scroll = 0
        /\ last_op = "none"

\* The process lives until the main thread returns or its panic has unwound.
ProcessRunning == pcM \notin {"done", "panicked"}

\* Mutex::lock returns the guard when no thread holds the lock.
LockFreeIgnored == TRUE
LockFree == lock = "none"

\* Mutex::lock returns Ok, so that unwrap() yields the guard, only when no
\* thread has panicked while holding the lock.
PoisonIgnored == TRUE
Unpoisoned == ~poisoned

----------------------------------------------------------------------------
(* tui::run: the sampler thread (tui.rs:69-91) *)

\* tui.rs:74, 78: read the clock, then lock().unwrap()
SamplerLockProcesses ==
    /\ ProcessRunning /\ pcS = "loop" /\ LockFree /\ Unpoisoned
    /\ now' = clock
    /\ lock' = "sampler"
    /\ pcS' = "replace"
    /\ UNCHANGED <<processes, cursorVars, cpuVars, poisoned, last_cpu_update, system,
                   core_i, pcM, visible_height, overflow_checks, clock,
                   prev_processes, memVars, renderLocals, last_op>>

\* AppState::update_processes, tui.rs:48: self.processes = get_all_processes()
SamplerReplace ==
    /\ ProcessRunning /\ pcS = "replace"
    /\ \E os \in OsTablesFixed :
         \E order \in Orders(DOMAIN os) :
           processes' = get_all_processes(os, order)
    /\ pcS' = "sort"
    /\ UNCHANGED <<cursorVars, cpuVars, lock, poisoned, samplerLocals, pcM,
                   visible_height, overflow_checks, clock, prev_processes, memVars, renderLocals, last_op>>

\* tui.rs:83: now.duration_since(last_cpu_update) >= cpu_update_interval
CpuRefreshAlways(n, last) == TRUE
CpuRefreshDue(n, last) == n - last >= cpu_update_interval

\* AppState::update_processes, tui.rs:49, the guard dropped at tui.rs:80 and
\* the test of tui.rs:83
SamplerSort ==
    /\ ProcessRunning /\ pcS = "sort"
    /\ processes' = sort_by_memory(processes)
    /\ lock' = "none"
    /\ pcS' = IF CpuRefreshDue(now, last_cpu_update) THEN "cpu_lock" ELSE "sleep"
    /\ UNCHANGED <<cursorVars, cpuVars, poisoned, samplerLocals, pcM,
                   visible_height, overflow_checks, clock, prev_processes, memVars, renderLocals, last_op>>

\* tui.rs:84: lock().unwrap()
SamplerLockCpu ==
    /\ ProcessRunning /\ pcS = "cpu_lock" /\ LockFree /\ Unpoisoned
    /\ lock' = "sampler"
    /\ pcS' = "cpu_settle"
    /\ UNCHANGED <<processes, cursorVars, cpuVars, poisoned, samplerLocals, pcM,
                   visible_height, overflow_checks, clock, prev_processes, memVars, renderLocals, last_op>>

\* CpuInfo::update, cpu.rs:81-85: System::new, the 250 ms sleep, refresh_cpu_all
SamplerCpuSettle ==
    /\ ProcessRunning /\ pcS = "cpu_settle"
    /\ clock + SettleMs <= MaxClock
    /\ clock' = clock + SettleMs
    /\ system' \in Readings(NumCores)
    /\ pcS' = "cpu_global"
    /\ UNCHANGED <<processes, cursorVars, cpuVars, lock, poisoned, now,
                   last_cpu_update, core_i, pcM, visible_height, overflow_checks,
                   prev_processes, memVars, renderLocals, last_op>>

\* CpuInfo::update, cpu.rs:88-92
SamplerCpuGlobal ==
    /\ ProcessRunning /\ pcS = "cpu_global"
    /\ cpu_info' = UpdateGlobal(cpu_info, system)
    /\ core_i' = 0
    /\ pcS' = "cpu_cores"
    /\ UNCHANGED <<processes, cursorVars, cpu_updates, lock, poisoned, now,
                   last_cpu_update, system, pcM, visible_height, overflow_checks,
                   clock, prev_processes, memVars, renderLocals, last_op>>

\* CpuInfo::update, cpu.rs:95-103: one round of the loop over system.cpus()
SamplerCpuCore ==
    /\ ProcessRunning /\ pcS = "cpu_cores"
    /\ core_i < Len(system.cpus)
    /\ cpu_info' = UpdateCore(cpu_info, system, core_i)
    /\ core_i' = core_i + 1
    /\ UNCHANGED <<processes, cursorVars, cpu_updates, lock, poisoned, pcS, now,
                   last_cpu_update, system, pcM, visible_height, overflow_checks,
                   clock, prev_processes, memVars, renderLocals, last_op>>

\* The loop of cpu.rs:95 ends; tui.rs:86-87: last_cpu_update = now, guard dropped
SamplerCpuDone ==
    /\ ProcessRunning /\ pcS = "cpu_cores"
    /\ core_i >= Len(system.cpus)
    /\ cpu_updates' = cpu_updates + 1
    /\ last_cpu_update' = now
    /\ lock' = "none"
    /\ pcS' = "sleep"
    /\ UNCHANGED <<processes, cursorVars, cpu_info, poisoned, now, system, core_i,
                   pcM, visible_height, overflow_checks, clock, prev_processes,
                   memVars, renderLocals, last_op>>

\* tui.rs:89: thread::sleep(50 ms); a sleep lasts at least its duration
SamplerSleep ==
    /\ ProcessRunning /\ pcS = "sleep"
    /\ \E over \in {0, MaxOvershoot} :
         /\ clock + PacingMs * (1 + over) <= MaxClock
         /\ clock' = clock + PacingMs * (1 + over)
    /\ pcS' = "loop"
    /\ UNCHANGED <<processes, cursorVars, cpuVars, lock, poisoned, samplerLocals,
                   pcM, visible_height, overflow_checks, prev_processes, memVars, renderLocals, last_op>>

\* tui.rs:78, 84: lock() returns Err on a poisoned Mutex and unwrap() panics
SamplerPoisoned ==
    /\ ProcessRunning /\ pcS \in {"loop", "cpu_lock"} /\ LockFree /\ poisoned
    /\ pcS' = "panicked"
    /\ UNCHANGED <<processes, cursorVars, cpuVars, lock, poisoned, samplerLocals,
                   pcM, visible_height, overflow_checks, clock, prev_processes,
                   memVars, renderLocals, last_op>>

----------------------------------------------------------------------------
(* tui::run: the main thread (tui.rs:95-133) *)

\* tui.rs:100: KeyCode::Char('q') => return Ok(())
MainQuit ==
    /\ pcM = "events"
    /\ pcM' = "done"
    /\ UNCHANGED <<processes, cursorVars, cpuVars, lock, poisoned, pcS,
                   samplerLocals, visible_height, overflow_checks, clock,
                   prev_processes, memVars, renderLocals, last_op>>

\* tui.rs:101-102: KeyCode::Down | 'j', lock().unwrap()
MainLockDown ==
    /\ pcM = "events" /\ LockFree
    /\ lock' = "main"
    /\ pcM' = "down"
    /\ UNCHANGED <<processes, cursorVars, cpuVars, poisoned, pcS, samplerLocals,
                   visible_height, overflow_checks, clock, prev_processes, memVars, renderLocals, last_op>>

\* tui.rs:103-109: the Down transition, the guard dropped at the arm's end
MainMoveDown ==
    /\ pcM = "down"
    /\ selected_process' = MoveDownSelected(selected_process, Len(processes))
    /\ scroll_offset' = MoveDownScroll(selected_process', scroll_offset, visible_height)
    /\ lock' = "none"
    /\ pcM' = "events"
    /\ UNCHANGED <<processes, cpuVars, poisoned, pcS, samplerLocals,
                   visible_height, overflow_checks, clock, prev_processes, memVars, renderLocals, last_op>>

\* tui.rs:110-111: KeyCode::Up | 'k', lock().unwrap()
MainLockUp ==
    /\ pcM = "events" /\ LockFree
    /\ lock' = "main"
    /\ pcM' = "up"
    /\ UNCHANGED <<processes, cursorVars, cpuVars, poisoned, pcS, samplerLocals,
                   visible_height, overflow_checks, clock, prev_processes, memVars, renderLocals, last_op>>

\* tui.rs:112-118: the Up transition, the guard dropped at the arm's end
MainMoveUp ==
    /\ pcM = "up"
    /\ selected_process' = MoveUpSelected(selected_process)
    /\ scroll_offset' = MoveUpScroll(selected_process', scroll_offset)
    /\ lock' = "none"
    /\ pcM' = "events"
    /\ UNCHANGED <<processes, cpuVars, poisoned, pcS, samplerLocals,
                   visible_height, overflow_checks, clock, prev_processes, memVars, renderLocals, last_op>>

\* tui.rs:125-127: no event is pending; the draw closure reads the frame's
\* height h, sets visible_height and locks the state
MainLockRender ==
    /\ pcM = "events" /\ LockFree
    /\ \E h \in TermHeights :
         /\ ~(overflow_checks /\ SubOverflows(h, HeaderRows))
         /\ visible_height' = VisibleHeight(h)
    /\ lock' = "main"
    /\ pcM' = "render"
    /\ UNCHANGED <<processes, cursorVars, cpuVars, poisoned, pcS, samplerLocals,
                   overflow_checks, clock, prev_processes, memVars, renderLocals, last_op>>

\* tui.rs:126 in a build with overflow checks, on a frame lower than 4 rows:
\* the subtraction panics before the lock is taken
MainDrawPanic ==
    /\ pcM = "events"
    /\ \E h \in TermHeights : overflow_checks /\ SubOverflows(h, HeaderRows)
    /\ pcM' = "panicking"
    /\ UNCHANGED <<processes, cursorVars, cpuVars, lock, poisoned, pcS,
                   samplerLocals, visible_height, overflow_checks, clock,
                   prev_processes, memVars, renderLocals, last_op>>

\* tui.rs:128-132: render reads the state (render_process_section computes
\* max_items and the adjusted scroll as locals), the guard is dropped at the
\* closure's end, then the 16 ms sleep
MainRender ==
    /\ pcM = "render"
    /\ \E a \in ProcAreaHeights(visible_height + HeaderRows) :
         ~(overflow_checks /\ SubOverflows(InnerHeight(a), 2))
    /\ lock' = "none"
    /\ pcM' = "events"
    /\ UNCHANGED <<processes, cursorVars, cpuVars, poisoned, pcS, samplerLocals,
                   visible_height, overflow_checks, clock, prev_processes, memVars, renderLocals, last_op>>

\* tui.rs:341 in a build with overflow checks, on a panel whose inner height
\* is below 2: the subtraction panics while the guard is held, which poisons
\* the Mutex as the guard is dropped by the unwinding
MainRenderPanic ==
    /\ pcM = "render"
    /\ \E a \in ProcAreaHeights(visible_height + HeaderRows) :
         overflow_checks /\ SubOverflows(InnerHeight(a), 2)
    /\ poisoned' = TRUE
    /\ lock' = "none"
    /\ pcM' = "panicking"
    /\ UNCHANGED <<processes, cursorVars, cpuVars, pcS, samplerLocals,
                   visible_height, overflow_checks, clock, prev_processes, memVars, renderLocals, last_op>>

\* The panic of the main thread has unwound: the process exits
MainExit ==
    /\ pcM = "panicking"
    /\ pcM' = "panicked"
    /\ UNCHANGED <<processes, cursorVars, cpuVars, lock, poisoned, pcS,
                   samplerLocals, visible_height, overflow_checks, clock,
                   prev_processes, memVars, renderLocals, last_op>>

Next ==
    \/ SamplerLockProcesses
    \/ SamplerReplace
    \/ SamplerSort
    \/ SamplerLockCpu
    \/ SamplerCpuSettle
    \/ SamplerCpuGlobal
    \/ SamplerCpuCore
    \/ SamplerCpuDone
    \/ SamplerSleep
    \/ SamplerPoisoned
    \/ MainQuit
    \/ MainLockDown
    \/ MainMoveDown
    \/ MainLockUp
    \/ MainMoveUp
    \/ MainLockRender
    \/ MainDrawPanic
    \/ MainRender
    \/ MainRenderPanic
    \/ MainExit

Spec == Init /\ [][Next]_vars

----------------------------------------------------------------------------
(* The process table alone: AppState::new, then update_processes again and *)
(* again (tui.rs:35-50), on any OS process table and any iteration order.  *)

InitProc ==
    \E os \in OsTables :
      \E order \in Orders(DOMAIN os) :
        /\ processes = sort_by_memory(get_all_processes(os, order))
        /\ prev_processes = <<>>
        /\ selected_process = 0
        /\ scroll_offset = 0
        /\ cpu_info = CpuInfoNew(NumCores)
        /\ lock = "none"
        /\ poisoned = FALSE
        /\ pcS = "replace"
        /\ now = 0
        /\ last_cpu_update = 0
        /\ system = NoSystem
        /\ core_i = 0
        /\ overflow_checks = TRUE
        /\ pcM = "events"
        /\ visible_height = 0
        /\ clock = 0
        /\ cpu_updates = 0
        /\ memory_info = MemoryInfoNew(MemStream(0))
        /\ mem_updates = 0
        /\ max_items = 0
        /\ adjusted_scroll = 0
        /\ last_op = "none"

\* tui.rs:48: self.processes = get_all_processes()
TableReplace ==
    /\ pcS = "replace"
    /\ \E os \in OsTables :
         \E order \in Orders(DOMAIN os) :
           processes' = get_all_processes(os, order)
    /\ pcS' = "sort"
    /\ last_op' = "replace"
    /\ UNCHANGED <<cursorVars, cpuVars, lock, poisoned, samplerLocals, pcM,
                   visible_height, overflow_checks, clock, prev_processes, memVars, renderLocals>>

\* tui.rs:49: process::sort_by_memory(&mut self.processes)
TableSort ==
    /\ pcS = "sort"
    /\ processes' = sort_by_memory(processes)
    /\ pcS' = "replace"
    /\ last_op' = "sort"
    /\ UNCHANGED <<cursorVars, cpuVars, lock, poisoned, samplerLocals, pcM,
                   visible_height, overflow_checks, clock, prev_processes, memVars, renderLocals>>

NextProc == TableReplace \/ TableSort

SpecProc == InitProc /\ [][NextProc]_vars

----------------------------------------------------------------------------
(* Successive refreshes compared: AppState::new, then update_processes     *)
(* again and again (tui.rs:35-50), with the list each refresh produced     *)
(* remembered in prev_processes while the next one runs.                   *)

InitRefresh ==
    \E os \in OsTables :
      \E order \in Orders(DOMAIN os) :
        /\ processes = sort_by_memory(get_all_processes(os, order))
        /\ prev_processes = processes
        /\ selected_process = 0
        /\ scroll_offset = 0
        /\ cpu_info = CpuInfoNew(NumCores)
        /\ lock = "none"
        /\ poisoned = FALSE
        /\ pcS = "replace"
        /\ now = 0
        /\ last_cpu_update = 0
        /\ system = NoSystem
        /\ core_i = 0
        /\ overflow_checks = TRUE
        /\ pcM = "events"
        /\ visible_height = 0
        /\ clock = 0
        /\ cpu_updates = 0
        /\ memory_info = MemoryInfoNew(MemStream(0))
        /\ mem_updates = 0
        /\ max_items = 0
        /\ adjusted_scroll = 0
        /\ last_op = "none"

\* tui.rs:48: self.processes = get_all_processes(); the list the previous
\* refresh produced is remembered in prev_processes
RefreshReplace ==
    /\ pcS = "replace"
    /\ \E os \in OsTables :
         \E order \in Orders(DOMAIN os) :
           processes' = get_all_processes(os, order)
    /\ prev_processes' = processes
    /\ pcS' = "sort"
    /\ UNCHANGED <<cursorVars, cpuVars, lock, poisoned, samplerLocals, pcM,
                   visible_height, overflow_checks, clock, memVars, renderLocals, last_op>>

\* tui.rs:49: process::sort_by_memory(&mut self.processes)
RefreshSort ==
    /\ pcS = "sort"
    /\ processes' = sort_by_memory(processes)
    /\ pcS' = "replace"
    /\ UNCHANGED <<cursorVars, cpuVars, lock, poisoned, samplerLocals, pcM,
                   visible_height, overflow_checks, clock, prev_processes, memVars, renderLocals, last_op>>

NextRefresh == RefreshReplace \/ RefreshSort

SpecRefresh == InitRefresh /\ [][NextRefresh]_vars

----------------------------------------------------------------------------
(* The rolling histories alone: the loop of cpu::main (cpu.rs:8-15) and     *)
(* repeated MemoryInfo::update calls, on the OS counter streams.           *)

InitHist ==
    /\ cpu_info = CpuInfoNew(NumCores)
    /\ cpu_updates = 0
    /\ memory_info = MemoryInfoNew(MemStream(0))
    /\ mem_updates = 0
    /\ max_items = 0
    /\ adjusted_scroll = 0
    /\ processes = <<>>
    /\ prev_processes = <<>>
    /\ selected_process = 0
    /\ scroll_offset = 0
    /\ lock = "none"
    /\ poisoned = FALSE
    /\ pcS = "loop"
    /\ now = 0
    /\ last_cpu_update = 0
    /\ system = NoSystem
    /\ core_i = 0
    /\ overflow_checks = TRUE
    /\ pcM = "events"
    /\ visible_height = 0
    /\ clock = 0
    /\ last_op = "none"

\* cpu::main, cpu.rs:9: cpu_info.update()
HistCpuUpdate ==
    /\ cpu_updates < MaxPushes
    /\ system' = CpuStream(cpu_updates + 1)
    /\ cpu_info' = CpuInfoUpdate(cpu_info, system')
    /\ cpu_updates' = cpu_updates + 1
    /\ UNCHANGED <<processes, cursorVars, lock, poisoned, pcS, now, last_cpu_update,
                   core_i, pcM, visible_height, overflow_checks, clock,
                   prev_processes, memVars, renderLocals, last_op>>

\* MemoryInfo::update (memory.rs:42-73)
HistMemUpdate ==
    /\ mem_updates < MaxPushes
    /\ memory_info' = MemoryInfoUpdate(memory_info, MemStream(mem_updates + 1))
    /\ mem_updates' = mem_updates + 1
    /\ UNCHANGED <<renderLocals, processes, cursorVars, cpuVars, lock, poisoned, pcS,
                   samplerLocals, pcM, visible_height, overflow_checks, clock,
                   prev_processes, last_op>>

NextHist == HistCpuUpdate \/ HistMemUpdate

SpecHist == InitHist /\ [][NextHist]_vars

----------------------------------------------------------------------------
(* MemoryInfo alone: MemoryInfo::new, then update (memory.rs:27-73), on    *)
(* any counters the OS may report.                                         *)

InitMem ==
    \E r \in MemReadings :
        /\ memory_info = MemoryInfoNew(r)
        /\ mem_updates = 0
        /\ max_items = 0
        /\ adjusted_scroll = 0
        /\ processes = <<>>
        /\ prev_processes = <<>>
        /\ selected_process = 0
        /\ scroll_offset = 0
        /\ cpu_info = CpuInfoNew(NumCores)
        /\ cpu_updates = 0
        /\ lock = "none"
        /\ poisoned = FALSE
        /\ pcS = "loop"
        /\ now = 0
        /\ last_cpu_update = 0
        /\ system = NoSystem
        /\ core_i = 0
        /\ overflow_checks = TRUE
        /\ pcM = "events"
        /\ visible_height = 0
        /\ clock = 0
        /\ last_op = "none"

\* MemoryInfo::update (memory.rs:42-73)
MemUpdate ==
    /\ mem_updates < MaxMemUpdates
    /\ \E r \in MemReadings : memory_info' = MemoryInfoUpdate(memory_info, r)
    /\ mem_updates' = mem_updates + 1
    /\ UNCHANGED <<renderLocals, processes, cursorVars, cpuVars, lock, poisoned, pcS, samplerLocals,
                   pcM, visible_height, overflow_checks, clock, prev_processes, last_op>>

NextMem == MemUpdate

SpecMem == InitMem /\ [][NextMem]_vars

----------------------------------------------------------------------------
(* CpuInfo::update statement by statement (cpu.rs:80-104), with the System *)
(* handle it reads the usage from: which handle it is, and at what times   *)
(* the handle has read the CPU counters.  A usage is the difference        *)
(* between two counter reads of one handle.  System::new() reads nothing.  *)

\* System::new(): the id-th handle of the run, no counter read yet
NewSystem(id) == [id |-> id, reads |-> <<>>, global |-> 0, cpus |-> <<>>]

\* refresh_cpu_all() at time t with readings r
RefreshCpuAll(sys, t, r) ==
    [sys EXCEPT !.reads = Append(@, t), !.global = r.global, !.cpus = r.cpus]

\* CpuInfo::new (cpu.rs:61-77): its System (handle 0) is a local, dropped
\* when new returns; CpuInfo has no field that could keep it
InitHandle ==
    /\ cpu_info = CpuInfoNew(NumCores)
    /\ cpu_updates = 0
    /\ system = NoSystem
    /\ pcS = "cpu_new"
    /\ clock = 0
    /\ processes = <<>>
    /\ prev_processes = <<>>
    /\ selected_process = 0
    /\ scroll_offset = 0
    /\ lock = "none"
    /\ poisoned = FALSE
    /\ now = 0
    /\ last_cpu_update = 0
    /\ core_i = 0
    /\ overflow_checks = TRUE
    /\ pcM = "events"
    /\ visible_height = 0
    /\ memory_info = MemoryInfoNew(MemStream(0))
    /\ mem_updates = 0
    /\ max_items = 0
    /\ adjusted_scroll = 0
    /\ last_op = "none"

\* cpu.rs:81: let mut system = System::new()
UpdateNewSystem ==
    /\ pcS = "cpu_new"
    /\ cpu_updates < MaxHandleUpdates
    /\ system' = NewSystem(cpu_updates + 1)
    /\ pcS' = "cpu_settle"
    /\ UNCHANGED <<processes, cursorVars, cpuVars, lock, poisoned, now, last_cpu_update,
                   core_i, pcM, visible_height, overflow_checks, clock, prev_processes,
                   memVars, renderLocals, last_op>>

\* cpu.rs:84: thread::sleep(250 ms)
UpdateSettle ==
    /\ pcS = "cpu_settle"
    /\ clock' = clock + SettleMs
    /\ pcS' = "cpu_refresh"
    /\ UNCHANGED <<processes, cursorVars, cpuVars, lock, poisoned, samplerLocals, pcM,
                   visible_height, overflow_checks, prev_processes, memVars,
                   renderLocals, last_op>>

\* cpu.rs:85: system.refresh_cpu_all()
UpdateRefresh ==
    /\ pcS = "cpu_refresh"
    /\ \E r \in Readings(NumCores) : system' = RefreshCpuAll(system, clock, r)
    /\ pcS' = "cpu_global"
    /\ UNCHANGED <<processes, cursorVars, cpuVars, lock, poisoned, now, last_cpu_update,
                   core_i, pcM, visible_height, overflow_checks, clock, prev_processes,
                   memVars, renderLocals, last_op>>

\* cpu.rs:87-104: the usages are stored and appended, update returns and
\* `system` is dropped
UpdatePush ==
    /\ pcS = "cpu_global"
    /\ cpu_info' = CpuInfoUpdate(cpu_info, system)
    /\ cpu_updates' = cpu_updates + 1
    /\ pcS' = "cpu_new"
    /\ UNCHANGED <<processes, cursorVars, lock, poisoned, samplerLocals, pcM,
                   visible_height, overflow_checks, clock, prev_processes, memVars,
                   renderLocals, last_op>>

NextHandle == UpdateNewSystem \/ UpdateSettle \/ UpdateRefresh \/ UpdatePush

SpecHandle == InitHandle /\ [][NextHandle]_vars

----------------------------------------------------------------------------
(* The program from its start: main (main.rs:7-19) calls cpu::main         *)
(* (cpu.rs:5-16), whose `loop` has no break and no return, and calls       *)
(* tui::main only after it.  Nothing of tui::run has happened yet: there   *)
(* is no shared state and no sampler thread.                               *)

NoCpuInfo == [global_usage |-> 0, history |-> <<>>, cores |-> <<>>]

InitMain ==
    /\ pcM = "main"
    /\ pcS = "unspawned"
    /\ cpu_info = NoCpuInfo
    /\ cpu_updates = 0
    /\ system = NoSystem
    /\ processes = <<>>
    /\ prev_processes = <<>>
    /\ selected_process = 0
    /\ scroll_offset = 0
    /\ lock = "none"
    /\ poisoned = FALSE
    /\ now = 0
    /\ last_cpu_update = 0
    /\ core_i = 0
    /\ overflow_checks \in BOOLEAN
    /\ visible_height = 0
    /\ clock = 0
    /\ memory_info = MemoryInfoNew(MemStream(0))
    /\ mem_updates = 0
    /\ max_items = 0
    /\ adjusted_scroll = 0
    /\ last_op = "none"

\* main.rs:17, cpu.rs:6: cpu::main() is entered, let mut cpu_info = CpuInfo::new()
MainCallCpu ==
    /\ pcM = "main"
    /\ cpu_info' = CpuInfoNew(NumCores)
    /\ pcM' = "cpu_update"
    /\ UNCHANGED <<processes, cursorVars, cpu_updates, lock, poisoned, pcS, samplerLocals,
                   visible_height, overflow_checks, clock, prev_processes, memVars, renderLocals, last_op>>

\* cpu.rs:9: cpu_info.update(); past MaxMainUpdates updates the machine is
\* idle and every usage read is 0
CpuMainUpdate ==
    /\ pcM = "cpu_update"
    /\ \E r \in Readings(NumCores) :
         /\ cpu_updates >= MaxMainUpdates =>
               r = [global |-> 0, cpus |-> [k \in 1..NumCores |-> 0]]
         /\ system' = r
         /\ cpu_info' = CpuInfoUpdate(cpu_info, r)
    /\ cpu_updates' = IF cpu_updates < MaxMainUpdates THEN cpu_updates + 1 ELSE cpu_updates
    /\ pcM' = "cpu_print"
    /\ UNCHANGED <<processes, cursorVars, lock, poisoned, pcS, now, last_cpu_update, core_i,
                   visible_height, overflow_checks, clock, prev_processes, memVars, renderLocals, last_op>>

\* cpu.rs:10-13: the println! of the global usage and of every core
CpuMainPrint ==
    /\ pcM = "cpu_print"
    /\ pcM' = "cpu_sleep"
    /\ UNCHANGED <<processes, cursorVars, cpuVars, lock, poisoned, pcS, samplerLocals,
                   visible_height, overflow_checks, clock, prev_processes, memVars, renderLocals, last_op>>

\* cpu.rs:14-15: sleep(1 s), then the loop starts over
CpuMainSleep ==
    /\ pcM = "cpu_sleep"
    /\ pcM' = "cpu_update"
    /\ UNCHANGED <<processes, cursorVars, cpuVars, lock, poisoned, pcS, samplerLocals,
                   visible_height, overflow_checks, clock, prev_processes, memVars, renderLocals, last_op>>

NextMain == MainCallCpu \/ CpuMainUpdate \/ CpuMainPrint \/ CpuMainSleep

\* The one thread of this specification is always scheduled again.
SpecMain == InitMain /\ [][NextMain]_vars /\ WF_vars(NextMain)

----------------------------------------------------------------------------
(* The cursor alone: every critical section of tui::run that touches the   *)
(* cursor or the list, taken as one step (the Mutex serialises them), on   *)
(* longer lists and taller terminals.                                      *)

CursorHeights == 3..MaxCursorHeight

\* A fetch of the n processes 1..n in pid order, sorted
TableOf(n) ==
    sort_by_memory(get_all_processes([p \in 1..n |-> MemOf(p)], [k \in 1..n |-> k]))

InitCursor ==
    \E n \in 0..MaxLen, h \in CursorHeights, oc \in BOOLEAN :
        /\ processes = TableOf(n)
        /\ selected_process = 0
        /\ scroll_offset = 0
        /\ overflow_checks = oc
        /\ pcM = IF oc /\ SubOverflows(h, HeaderRows) THEN "panicking" ELSE "events"
        /\ visible_height = IF oc /\ SubOverflows(h, HeaderRows) THEN 0 ELSE VisibleHeight(h)
        /\ last_op = "none"
        /\ prev_processes = <<>>
        /\ cpu_info = CpuInfoNew(NumCores)
        /\ lock = "none"
        /\ poisoned = FALSE
        /\ pcS = "loop"
        /\ now = 0
        /\ last_cpu_update = 0
        /\ system = NoSystem
        /\ core_i = 0
        /\ clock = 0
        /\ cpu_updates = 0
        /\ memory_info = MemoryInfoNew(MemStream(0))
        /\ mem_updates = 0
        /\ max_items = 0
        /\ adjusted_scroll = 0

\* tui.rs:101-109
CursorDown ==
    /\ pcM = "events"
    /\ selected_process' = MoveDownSelected(selected_process, Len(processes))
    /\ scroll_offset' = MoveDownScroll(selected_process', scroll_offset, visible_height)
    /\ last_op' = "down"
    /\ UNCHANGED <<processes, cpuVars, lock, poisoned, pcS, samplerLocals, pcM,
                   visible_height, overflow_checks, clock, prev_processes, memVars, renderLocals>>

\* tui.rs:110-118
CursorUp ==
    /\ pcM = "events"
    /\ selected_process' = MoveUpSelected(selected_process)
    /\ scroll_offset' = MoveUpScroll(selected_process', scroll_offset)
    /\ last_op' = "up"
    /\ UNCHANGED <<processes, cpuVars, lock, poisoned, pcS, samplerLocals, pcM,
                   visible_height, overflow_checks, clock, prev_processes, memVars, renderLocals>>

\* tui.rs:77-80 with AppState::update_processes (tui.rs:47-50): the list is
\* replaced and sorted; nothing else of the state is written
CursorRefresh ==
    /\ pcM = "events"
    /\ \E n \in 0..MaxLen : processes' = TableOf(n)
    /\ last_op' = "refresh"
    /\ UNCHANGED <<cursorVars, cpuVars, lock, poisoned, pcS, samplerLocals, pcM,
                   visible_height, overflow_checks, clock, prev_processes, memVars, renderLocals>>

\* tui.rs:125-129 on a frame of height h that the build survives: the draw
\* writes visible_height; render only reads the state
CursorDraw ==
    /\ pcM = "events"
    /\ \E h \in CursorHeights :
         /\ ~(overflow_checks /\ SubOverflows(h, HeaderRows))
         /\ \E a \in ProcAreaHeights(h) :
              ~(overflow_checks /\ SubOverflows(InnerHeight(a), 2))
         /\ visible_height' = VisibleHeight(h)
    /\ last_op' = "draw"
    /\ UNCHANGED <<processes, cursorVars, cpuVars, lock, poisoned, pcS,
                   samplerLocals, pcM, overflow_checks, clock, prev_processes, memVars, renderLocals>>

\* tui.rs:126 or tui.rs:341 panics in a build with overflow checks
CursorDrawPanic ==
    /\ pcM = "events"
    /\ overflow_checks
    /\ \E h \in CursorHeights :
         \/ SubOverflows(h, HeaderRows)
         \/ \E a \in ProcAreaHeights(h) : SubOverflows(InnerHeight(a), 2)
    /\ pcM' = "panicking"
    /\ last_op' = "draw"
    /\ UNCHANGED <<processes, cursorVars, cpuVars, lock, poisoned, pcS,
                   samplerLocals, visible_height, overflow_checks, clock,
                   prev_processes, memVars, renderLocals>>

NextCursor ==
    \/ CursorDown
    \/ CursorUp
    \/ CursorRefresh
    \/ CursorDraw
    \/ CursorDrawPanic

SpecCursor == InitCursor /\ [][NextCursor]_vars

----------------------------------------------------------------------------
(* The window computation of render_process_section (tui.rs:340-349) as a  *)
(* function of its arguments: any list length, any selected_process and    *)
(* scroll_offset, any panel height, in either build profile.               *)

InitWindow ==
    \E n \in 0..MaxWinLen, sel \in 0..MaxWinCursor, scroll \in 0..MaxWinCursor,
       oc \in BOOLEAN :
        /\ processes = TableOf(n)
        /\ selected_process = sel
        /\ scroll_offset = scroll
        /\ overflow_checks = oc
        /\ pcM = "render"
        /\ max_items = 0
        /\ adjusted_scroll = 0
        /\ last_op = "none"
        /\ visible_height = 0
        /\ prev_processes = <<>>
        /\ cpu_info = CpuInfoNew(NumCores)
        /\ lock = "main"
        /\ poisoned = FALSE
        /\ pcS = "sleep"
        /\ now = 0
        /\ last_cpu_update = 0
        /\ system = NoSystem
        /\ core_i = 0
        /\ clock = 0
        /\ cpu_updates = 0
        /\ memory_info = MemoryInfoNew(MemStream(0))
        /\ mem_updates = 0

\* tui.rs:340-349 on a panel of height a that the build survives
WindowRender ==
    /\ pcM = "render"
    /\ \E a \in 0..MaxArea :
         /\ ~(overflow_checks /\ SubOverflows(InnerHeight(a), 2))
         /\ max_items' = MaxItems(a)
    /\ adjusted_scroll' =
         AdjustedScroll(selected_process,
                        RenderScroll(scroll_offset, Len(processes), max_items'),
                        max_items')
    /\ last_op' = "render"
    /\ UNCHANGED <<processes, cursorVars, cpuVars, lock, poisoned, pcS, samplerLocals,
                   pcM, visible_height, overflow_checks, clock, prev_processes, memVars>>

\* tui.rs:341 on a panel whose inner height is below 2, in a build with
\* overflow checks: the subtraction panics under the guard
WindowRenderPanic ==
    /\ pcM = "render"
    /\ overflow_checks
    /\ \E a \in 0..MaxArea : SubOverflows(InnerHeight(a), 2)
    /\ pcM' = "panicking"
    /\ poisoned' = TRUE
    /\ lock' = "none"
    /\ last_op' = "render"
    /\ UNCHANGED <<processes, cursorVars, cpuVars, pcS, samplerLocals, visible_height,
                   overflow_checks, clock, prev_processes, memVars, renderLocals>>

NextWindow == WindowRender \/ WindowRenderPanic

SpecWindow == InitWindow /\ [][NextWindow]_vars

----------------------------------------------------------------------------
(* The sampler thread alone, iteration by iteration (tui.rs:69-91), over a *)
(* horizon that holds more than one CPU refresh.  The main thread can only *)
(* delay a lock() of the sampler and is left out; what the refreshes read  *)
(* has no influence on the loop, so the reads come from the streams.       *)

InitSampler ==
    /\ processes = TableOf(1)
    /\ prev_processes = <<>>
    /\ selected_process = 0
    /\ scroll_offset = 0
    /\ cpu_info = CpuInfoNew(NumCores)
    /\ cpu_updates = 0
    /\ lock = "none"
    /\ poisoned = FALSE
    /\ pcS = "loop"
    /\ now = 0
    /\ last_cpu_update = 0
    /\ system = NoSystem
    /\ core_i = 0
    /\ overflow_checks = TRUE
    /\ pcM = "events"
    /\ visible_height = 0
    /\ clock = 0
    /\ memory_info = MemoryInfoNew(MemStream(0))
    /\ mem_updates = 0
    /\ max_items = 0
    /\ adjusted_scroll = 0
    /\ last_op = "none"

\* tui.rs:74, 78: let now = Instant::now(); lock().unwrap()
IterLockProcesses ==
    /\ pcS = "loop" /\ LockFree
    /\ now' = clock
    /\ lock' = "sampler"
    /\ pcS' = "replace"
    /\ UNCHANGED <<processes, cursorVars, cpuVars, poisoned, last_cpu_update, system,
                   core_i, pcM, visible_height, overflow_checks, clock, prev_processes,
                   memVars, renderLocals, last_op>>

\* tui.rs:79, 48: self.processes = get_all_processes()
IterReplace ==
    /\ pcS = "replace"
    /\ \E n \in 0..1 :
         processes' = get_all_processes([p \in 1..n |-> MemOf(p)], [k \in 1..n |-> k])
    /\ pcS' = "sort"
    /\ last_op' = "replace"
    /\ UNCHANGED <<cursorVars, cpuVars, lock, poisoned, samplerLocals, pcM, visible_height,
                   overflow_checks, clock, prev_processes, memVars, renderLocals>>

\* tui.rs:79-80, 49: the sort, the guard dropped; tui.rs:83: the test
IterSort ==
    /\ pcS = "sort"
    /\ processes' = sort_by_memory(processes)
    /\ lock' = "none"
    /\ pcS' = IF CpuRefreshDue(now, last_cpu_update) THEN "cpu_lock" ELSE "sleep"
    /\ last_op' = "sort"
    /\ UNCHANGED <<cursorVars, cpuVars, poisoned, samplerLocals, pcM, visible_height,
                   overflow_checks, clock, prev_processes, memVars, renderLocals>>

\* tui.rs:84: lock().unwrap()
IterLockCpu ==
    /\ pcS = "cpu_lock" /\ LockFree
    /\ lock' = "sampler"
    /\ pcS' = "cpu_settle"
    /\ last_op' = "cpu_lock"
    /\ UNCHANGED <<processes, cursorVars, cpuVars, poisoned, samplerLocals, pcM,
                   visible_height, overflow_checks, clock, prev_processes, memVars,
                   renderLocals>>

\* tui.rs:85-87: state.cpu_info.update() with its 250 ms sleep (cpu.rs:80-104),
\* last_cpu_update = now, the guard dropped
IterCpuUpdate ==
    /\ pcS = "cpu_settle"
    /\ clock' = clock + SettleMs
    /\ system' = CpuStream(cpu_updates + 1)
    /\ cpu_info' = CpuInfoUpdate(cpu_info, system')
    /\ cpu_updates' = cpu_updates + 1
    /\ last_cpu_update' = now
    /\ lock' = "none"
    /\ pcS' = "sleep"
    /\ last_op' = "cpu_update"
    /\ UNCHANGED <<processes, cursorVars, poisoned, now, core_i, pcM, visible_height,
                   overflow_checks, prev_processes, memVars, renderLocals>>

\* tui.rs:89: thread::sleep(50 ms); a sleep lasts at least its duration
IterSleep ==
    /\ pcS = "sleep"
    /\ \E over \in {0, MaxOvershoot} :
         /\ clock + PacingMs * (1 + over) <= MaxSamplerClock
         /\ clock' = clock + PacingMs * (1 + over)
    /\ pcS' = "loop"
    /\ last_op' = "sleep"
    /\ UNCHANGED <<processes, cursorVars, cpuVars, lock, poisoned, samplerLocals, pcM,
                   visible_height, overflow_checks, prev_processes, memVars, renderLocals>>

NextSampler ==
    \/ IterLockProcesses
    \/ IterReplace
    \/ IterSort
    \/ IterLockCpu
    \/ IterCpuUpdate
    \/ IterSleep

SpecSampler == InitSampler /\ [][NextSampler]_vars

----------------------------------------------------------------------------
(* CpuInfo::update core by core (cpu.rs:80-104) on a machine whose number  *)
(* of cpus changes after CpuInfo::new counted NumCores of them.            *)

\* The numbers of cpus a later System may report
CoreCounts == (NumCores - 1)..(NumCores + 1)

InitCores ==
    /\ cpu_info = CpuInfoNew(NumCores)
    /\ cpu_updates = 0
    /\ system = NoSystem
    /\ core_i = 0
    /\ pcS = "cpu_settle"
    /\ processes = <<>>
    /\ prev_processes = <<>>
    /\ selected_process = 0
    /\ scroll_offset = 0
    /\ lock = "none"
    /\ poisoned = FALSE
    /\ now = 0
    /\ last_cpu_update = 0
    /\ overflow_checks = TRUE
    /\ pcM = "events"
    /\ visible_height = 0
    /\ clock = 0
    /\ memory_info = MemoryInfoNew(MemStream(0))
    /\ mem_updates = 0
    /\ max_items = 0
    /\ adjusted_scroll = 0
    /\ last_op = "none"

\* cpu.rs:81-85: System::new, the sleep, refresh_cpu_all
CoresRefresh ==
    /\ pcS = "cpu_settle"
    /\ cpu_updates < MaxCoreUpdates
    /\ \E n \in CoreCounts : system' \in Readings(n)
    /\ pcS' = "cpu_global"
    /\ UNCHANGED <<processes, cursorVars, cpuVars, lock, poisoned, now, last_cpu_update,
                   core_i, pcM, visible_height, overflow_checks, clock, prev_processes,
                   memVars, renderLocals, last_op>>

\* cpu.rs:88-92
CoresGlobal ==
    /\ pcS = "cpu_global"
    /\ cpu_info' = UpdateGlobal(cpu_info, system)
    /\ core_i' = 0
    /\ pcS' = "cpu_cores"
    /\ UNCHANGED <<processes, cursorVars, cpu_updates, lock, poisoned, now,
                   last_cpu_update, system, pcM, visible_height, overflow_checks, clock,
                   prev_processes, memVars, renderLocals, last_op>>

\* cpu.rs:95-103: one round of the loop over system.cpus()
CoresCore ==
    /\ pcS = "cpu_cores"
    /\ core_i < Len(system.cpus)
    /\ cpu_info' = UpdateCore(cpu_info, system, core_i)
    /\ core_i' = core_i + 1
    /\ UNCHANGED <<processes, cursorVars, cpu_updates, lock, poisoned, pcS, now,
                   last_cpu_update, system, pcM, visible_height, overflow_checks, clock,
                   prev_processes, memVars, renderLocals, last_op>>

\* cpu.rs:95, 104: the loop ends and update returns
CoresDone ==
    /\ pcS = "cpu_cores"
    /\ core_i >= Len(system.cpus)
    /\ cpu_updates' = cpu_updates + 1
    /\ pcS' = "cpu_settle"
    /\ UNCHANGED <<processes, cursorVars, cpu_info, lock, poisoned, samplerLocals, pcM,
                   visible_height, overflow_checks, clock, prev_processes, memVars,
                   renderLocals, last_op>>

NextCores == CoresRefresh \/ CoresGlobal \/ CoresCore \/ CoresDone

SpecCores == InitCores /\ [][NextCores]_vars

----------------------------------------------------------------------------
(* tui::run as a system that runs forever: both threads, every lock() a    *)
(* blocking wait of its own, no clock.  The test of tui.rs:83 may go       *)
(* either way, and an idle machine is sampled, so that states recur.       *)

IdleReading == [global |-> 0, cpus |-> [k \in 1..NumCores |-> 0]]

InitLive ==
    \E h \in TermHeights, oc \in BOOLEAN :
        /\ processes = TableOf(2)
        /\ prev_processes = <<>>
        /\ selected_process = 0
        /\ scroll_offset = 0
        /\ cpu_info = CpuInfoNew(NumCores)
        /\ cpu_updates = 0
        /\ lock = "none"
        /\ poisoned = FALSE
        /\ pcS = "loop"
        /\ now = 0
        /\ last_cpu_update = 0
        /\ system = NoSystem
        /\ core_i = 0
        /\ overflow_checks = oc
        /\ pcM = IF oc /\ SubOverflows(h, HeaderRows) THEN "panicking" ELSE "events"
        /\ visible_height = IF oc /\ SubOverflows(h, HeaderRows) THEN 0 ELSE VisibleHeight(h)
        /\ clock = 0
        /\ memory_info = MemoryInfoNew(MemStream(0))
        /\ mem_updates = 0
        /\ max_items = 0
        /\ adjusted_scroll = 0
        /\ last_op = "none"

\* tui.rs:78: lock().unwrap() returns the guard
LiveSamplerLock ==
    /\ ProcessRunning /\ pcS = "loop" /\ LockFree /\ Unpoisoned
    /\ lock' = "sampler"
    /\ pcS' = "replace"
    /\ UNCHANGED <<processes, cursorVars, cpuVars, poisoned, samplerLocals, pcM,
                   visible_height, overflow_checks, clock, prev_processes, memVars,
                   renderLocals, last_op>>

\* tui.rs:79-83: update_processes, the guard dropped, the interval test
LiveSamplerRefresh ==
    /\ ProcessRunning /\ pcS = "replace"
    /\ \E n \in 1..2 : processes' = TableOf(n)
    /\ lock' = "none"
    /\ pcS' \in {"cpu_lock", "sleep"}
    /\ UNCHANGED <<cursorVars, cpuVars, poisoned, samplerLocals, pcM, visible_height,
                   overflow_checks, clock, prev_processes, memVars, renderLocals, last_op>>

\* tui.rs:84: lock().unwrap() returns the guard
LiveSamplerLockCpu ==
    /\ ProcessRunning /\ pcS = "cpu_lock" /\ LockFree /\ Unpoisoned
    /\ lock' = "sampler"
    /\ pcS' = "cpu_settle"
    /\ UNCHANGED <<processes, cursorVars, cpuVars, poisoned, samplerLocals, pcM,
                   visible_height, overflow_checks, clock, prev_processes, memVars,
                   renderLocals, last_op>>

\* tui.rs:85-87: cpu_info.update() with its sleep, the guard dropped
LiveSamplerCpuUpdate ==
    /\ ProcessRunning /\ pcS = "cpu_settle"
    /\ system' = IdleReading
    /\ cpu_info' = CpuInfoUpdate(cpu_info, IdleReading)
    /\ lock' = "none"
    /\ pcS' = "sleep"
    /\ UNCHANGED <<processes, cursorVars, cpu_updates, poisoned, now, last_cpu_update,
                   core_i, pcM, visible_height, overflow_checks, clock, prev_processes,
                   memVars, renderLocals, last_op>>

\* tui.rs:89: the pacing sleep ends
LiveSamplerSleep ==
    /\ ProcessRunning /\ pcS = "sleep"
    /\ pcS' = "loop"
    /\ UNCHANGED <<processes, cursorVars, cpuVars, lock, poisoned, samplerLocals, pcM,
                   visible_height, overflow_checks, clock, prev_processes, memVars,
                   renderLocals, last_op>>

\* tui.rs:78, 84: lock() returns Err on a poisoned Mutex and unwrap() panics
LiveSamplerPoisoned ==
    /\ ProcessRunning /\ pcS \in {"loop", "cpu_lock"} /\ LockFree /\ poisoned
    /\ pcS' = "panicked"
    /\ UNCHANGED <<processes, cursorVars, cpuVars, lock, poisoned, samplerLocals, pcM,
                   visible_height, overflow_checks, clock, prev_processes, memVars,
                   renderLocals, last_op>>

\* tui.rs:97-100: a pending 'q' is read and matched
LiveKeyQuitLocked ==
    /\ pcM = "events" /\ LockFree
    /\ lock' = "main"
    /\ pcM' = "quitting"
    /\ last_op' = "quit"
    /\ UNCHANGED <<processes, cursorVars, cpuVars, poisoned, pcS, samplerLocals,
                   visible_height, overflow_checks, clock, prev_processes, memVars,
                   renderLocals>>
LiveKeyQuit ==
    /\ pcM = "events"
    /\ pcM' = "quitting"
    /\ last_op' = "quit"
    /\ UNCHANGED <<processes, cursorVars, cpuVars, lock, poisoned, pcS, samplerLocals,
                   visible_height, overflow_checks, clock, prev_processes, memVars,
                   renderLocals>>

\* tui.rs:100, 56-58: return Ok(()) leaves run; main restores the terminal
\* and returns
LiveReturn ==
    /\ pcM = "quitting"
    /\ pcM' = "done"
    /\ UNCHANGED <<processes, cursorVars, cpuVars, lock, poisoned, pcS, samplerLocals,
                   visible_height, overflow_checks, clock, prev_processes, memVars,
                   renderLocals, last_op>>

\* tui.rs:97-101, 110: a pending Down/'j' or Up/'k' is read; lock() is called
LiveKey ==
    /\ pcM = "events"
    /\ pcM' \in {"want_down", "want_up"}
    /\ last_op' = "key"
    /\ UNCHANGED <<processes, cursorVars, cpuVars, lock, poisoned, pcS, samplerLocals,
                   visible_height, overflow_checks, clock, prev_processes, memVars,
                   renderLocals>>

\* tui.rs:102, 111: lock().unwrap() returns the guard
LiveLockKey ==
    /\ pcM \in {"want_down", "want_up"} /\ LockFree
    /\ lock' = "main"
    /\ pcM' = IF pcM = "want_down" THEN "down" ELSE "up"
    /\ UNCHANGED <<processes, cursorVars, cpuVars, poisoned, pcS, samplerLocals,
                   visible_height, overflow_checks, clock, prev_processes, memVars,
                   renderLocals, last_op>>

\* tui.rs:103-109
LiveMoveDown ==
    /\ pcM = "down"
    /\ selected_process' = MoveDownSelected(selected_process, Len(processes))
    /\ scroll_offset' = MoveDownScroll(selected_process', scroll_offset, visible_height)
    /\ lock' = "none"
    /\ pcM' = "events"
    /\ last_op' = "down"
    /\ UNCHANGED <<processes, cpuVars, poisoned, pcS, samplerLocals, visible_height,
                   overflow_checks, clock, prev_processes, memVars, renderLocals>>

\* tui.rs:112-118
LiveMoveUp ==
    /\ pcM = "up"
    /\ selected_process' = MoveUpSelected(selected_process)
    /\ scroll_offset' = MoveUpScroll(selected_process', scroll_offset)
    /\ lock' = "none"
    /\ pcM' = "events"
    /\ last_op' = "up"
    /\ UNCHANGED <<processes, cpuVars, poisoned, pcS, samplerLocals, visible_height,
                   overflow_checks, clock, prev_processes, memVars, renderLocals>>

\* tui.rs:97, 125-127: no event is pending; the draw closure sets
\* visible_height from a frame of height h and calls lock()
LiveDraw ==
    /\ pcM = "events"
    /\ \E h \in TermHeights :
         /\ ~(overflow_checks /\ SubOverflows(h, HeaderRows))
         /\ visible_height' = VisibleHeight(h)
    /\ pcM' = "want_render"
    /\ last_op' = "draw"
    /\ UNCHANGED <<processes, cursorVars, cpuVars, lock, poisoned, pcS, samplerLocals,
                   overflow_checks, clock, prev_processes, memVars, renderLocals>>

\* tui.rs:126 with overflow checks on a frame lower than 4 rows
LiveDrawPanic ==
    /\ pcM = "events"
    /\ \E h \in TermHeights : overflow_checks /\ SubOverflows(h, HeaderRows)
    /\ pcM' = "panicking"
    /\ last_op' = "draw"
    /\ UNCHANGED <<processes, cursorVars, cpuVars, lock, poisoned, pcS, samplerLocals,
                   visible_height, overflow_checks, clock, prev_processes, memVars,
                   renderLocals>>

\* tui.rs:127: lock().unwrap() returns the guard
LiveLockRender ==
    /\ pcM = "want_render" /\ LockFree
    /\ lock' = "main"
    /\ pcM' = "render"
    /\ UNCHANGED <<processes, cursorVars, cpuVars, poisoned, pcS, samplerLocals,
                   visible_height, overflow_checks, clock, prev_processes, memVars,
                   renderLocals, last_op>>

\* tui.rs:128-132: render reads the state, the guard is dropped, the 16 ms
\* sleep
LiveRender ==
    /\ pcM = "render"
    /\ \E a \in ProcAreaHeights(visible_height + HeaderRows) :
         ~(overflow_checks /\ SubOverflows(InnerHeight(a), 2))
    /\ lock' = "none"
    /\ pcM' = "events"
    /\ last_op' = "render"
    /\ UNCHANGED <<processes, cursorVars, cpuVars, poisoned, pcS, samplerLocals,
                   visible_height, overflow_checks, clock, prev_processes, memVars,
                   renderLocals>>

\* tui.rs:341 with overflow checks on a panel whose inner height is below 2
LiveRenderPanic ==
    /\ pcM = "render"
    /\ \E a \in ProcAreaHeights(visible_height + HeaderRows) :
         overflow_checks /\ SubOverflows(InnerHeight(a), 2)
    /\ poisoned' = TRUE
    /\ lock' = "none"
    /\ pcM' = "panicking"
    /\ last_op' = "render"
    /\ UNCHANGED <<processes, cursorVars, cpuVars, pcS, samplerLocals, visible_height,
                   overflow_checks, clock, prev_processes, memVars, renderLocals>>

\* The panic of the main thread has unwound: the process exits
LiveExit ==
    /\ pcM = "panicking"
    /\ pcM' = "panicked"
    /\ UNCHANGED <<processes, cursorVars, cpuVars, lock, poisoned, pcS, samplerLocals,
                   visible_height, overflow_checks, clock, prev_processes, memVars,
                   renderLocals, last_op>>

LiveSamplerStep ==
    \/ LiveSamplerRefresh
    \/ LiveSamplerCpuUpdate
    \/ LiveSamplerSleep
    \/ LiveSamplerPoisoned

LiveMainStep ==
    \/ LiveKeyQuit
    \/ LiveReturn
    \/ LiveKey
    \/ LiveMoveDown
    \/ LiveMoveUp
    \/ LiveDraw
    \/ LiveDrawPanic
    \/ LiveRender
    \/ LiveRenderPanic
    \/ LiveExit

NextLive ==
    \/ LiveSamplerLock
    \/ LiveSamplerLockCpu
    \/ LiveSamplerStep
    \/ LiveMainStep
    \/ LiveLockKey
    \/ LiveLockRender

\* Each thread keeps being scheduled (WF); the lock is fair, so a thread that
\* finds it free again and again gets it (SF); and input does not arrive
\* forever without a pause, so the event loop of tui.rs:97 is left again and
\* again for a draw (SF on the draw).
LiveFairness ==
    /\ WF_vars(LiveSamplerStep)
    /\ WF_vars(LiveMainStep)
    /\ SF_vars(LiveDraw \/ LiveDrawPanic)
    /\ SF_vars(LiveSamplerLock)
    /\ SF_vars(LiveSamplerLockCpu)
    /\ SF_vars(LiveLockKey)
    /\ SF_vars(LiveLockRender)

SpecLive == InitLive /\ [][NextLive]_vars /\ LiveFairness

----------------------------------------------------------------------------
(* Claims *)

SamplerInCS == pcS \in {"replace", "sort", "cpu_settle", "cpu_global", "cpu_cores"}
MainInCS == pcM \in {"down", "up", "render"}

\* i < j implies memory_mb[i] >= memory_mb[j]
SortedByMemoryDesc(ps) ==
    \A i, j \in 1..Len(ps) : i < j => ps[i].memory_mb >= ps[j].memory_mb

\* out holds exactly the records of in, and records of equal memory are in
\* the order they have in in
StablePermutation(in, out) ==
    /\ Len(out) = Len(in)
    /\ \A k \in 1..Len(in) : \E m \in 1..Len(out) : out[m] = in[k]
    /\ \A i, j \in 1..Len(in) :
         (i < j /\ in[i].memory_mb = in[j].memory_mb) =>
            \E m, n \in 1..Len(out) : m < n /\ out[m] = in[i] /\ out[n] = in[j]

\* C1: whenever no critical section is in progress, the selection index is
\* within the list: 0 <= selected <= len - 1, or selected = 0 on an empty
\* list (stated for builds with overflow checks and a visible height >= 1,
\* where no value has wrapped).
C1_SelectionWithinList ==
    (lock = "none" /\ overflow_checks /\ visible_height >= 1) =>
        IF Len(processes) = 0
        THEN selected_process = 0
        ELSE 0 <= selected_process /\ selected_process <= Len(processes) - 1

\* C2: the sampler never holds the lock on the shared state while the CPU
\* settle delay of CpuInfo::update is in progress.
C2_SettleOutsideLock ==
    ~(pcS = "cpu_settle" /\ lock = "sampler")

\* The selection is within a non-empty list, visible_height >= 1, and no
\* panic has ended the main loop (builds with overflow checks, where no value
\* has wrapped).
CursorApplies ==
    /\ pcM = "events"
    /\ overflow_checks
    /\ Len(processes) > 0
    /\ selected_process < Len(processes)
    /\ visible_height >= 1

\* scroll_offset <= selected < scroll_offset + visible_height
SelectionInWindow ==
    /\ scroll_offset <= selected_process
    /\ selected_process < scroll_offset + visible_height

\* C3: every transition (Down, Up, refresh, draw with a new height) from a
\* state whose scroll offset keeps the selection in the visible window leads
\* to a state whose scroll offset does, wherever the list is not empty, the
\* selection is within it and visible_height >= 1.
C3_SelectionInWindow ==
    [][(CursorApplies /\ SelectionInWindow /\ CursorApplies') =>
          SelectionInWindow']_vars

\* C4: at most one thread is inside a critical section on the shared state,
\* the lock names that thread, and what the main thread observes under the
\* lock is whole: the global CPU history and every core's history hold the
\* samples of the same number of completed CPU refreshes, and the process
\* list is sorted.
C4_ExclusiveAndWhole ==
    /\ ~(SamplerInCS /\ MainInCS)
    /\ SamplerInCS => lock = "sampler"
    /\ MainInCS => lock = "main"
    /\ MainInCS =>
        /\ Len(cpu_info.history) = Min(cpu_updates, HistoryCap)
        /\ \A c \in 1..Len(cpu_info.cores) :
             Len(cpu_info.cores[c].history) = Len(cpu_info.history)
        /\ SortedByMemoryDesc(processes)

\* A render under the lock after a CPU refresh has completed, of a list the
\* sort had to reorder, while the sampler is back at its loop head.
C4_Witness ==
    /\ pcM = "render"
    /\ lock = "main"
    /\ pcS = "loop"
    /\ cpu_updates >= 1
    /\ Len(cpu_info.history) >= 1
    /\ Len(processes) >= 2

\* C5: after N updates every rolling history (global CPU, each core, memory,
\* swap) has length min(N, 60) and holds, oldest first, the values of the
\* last min(N, 60) updates: when N > 60 its first value is the one pushed by
\* update N - 59.
C5_HistoryIsLastSixty ==
    LET cl == Min(cpu_updates, 60)
        ml == Min(mem_updates, 60)
    IN  /\ Len(cpu_info.history) = cl
        /\ \A k \in 1..cl :
             cpu_info.history[k] = CpuStream(cpu_updates - cl + k).global
        /\ \A c \in 1..Len(cpu_info.cores) :
             /\ Len(cpu_info.cores[c].history) = cl
             /\ \A k \in 1..cl :
                  cpu_info.cores[c].history[k] = CpuStream(cpu_updates - cl + k).cpus[c]
        /\ Len(memory_info.memory_history) = ml
        /\ Len(memory_info.swap_history) = ml
        /\ \A k \in 1..ml :
             /\ memory_info.memory_history[k] = MemoryPercent(MemStream(mem_updates - ml + k))
             /\ memory_info.swap_history[k] = SwapPercent(MemStream(mem_updates - ml + k))

\* More than 60 updates of each sampler have run, so each history has evicted.
C5_Witness ==
    /\ cpu_updates > 60
    /\ mem_updates > 60
    /\ cpu_info.history[1] = CpuStream(cpu_updates - 59).global

\* C6: a Down key on a state with visible_height >= 1 (in a build with
\* overflow checks, where no value has wrapped) sets selected to
\* min(selected + 1, length - 1) (0 on an empty list), also when selected was
\* beyond length - 1, and then sets scroll_offset to selected - visible_height
\* + 1 if selected >= scroll_offset + visible_height.
C6_MoveDown ==
    [][(last_op' = "down" /\ overflow_checks /\ visible_height >= 1) =>
          /\ selected_process' =
                Min(selected_process + 1, Max(Len(processes) - 1, 0))
          /\ scroll_offset' =
                IF selected_process' >= scroll_offset + visible_height
                THEN selected_process' - visible_height + 1
                ELSE scroll_offset]_vars

\* C7: an Up key sets selected to selected - 1, or leaves it at 0, and then
\* sets scroll_offset to selected if selected < scroll_offset, and leaves
\* scroll_offset alone otherwise.
C7_MoveUp ==
    [][last_op' = "up" =>
          /\ selected_process' = Max(selected_process - 1, 0)
          /\ scroll_offset' =
                IF selected_process' < scroll_offset
                THEN selected_process'
                ELSE scroll_offset]_vars

\* The example of the claim: an Up key has taken the cursor from
\* (selected 5, scroll 1) to (selected 4, scroll 1) on a list of 10 with a
\* window of 5.
C7_Witness ==
    /\ last_op = "up"
    /\ Len(processes) = 10
    /\ visible_height = 5
    /\ selected_process = 4
    /\ scroll_offset = 1

\* C8: when a refresh changes the list length to length' or a draw changes
\* the visible height to height' (>= 1), scroll_offset becomes
\* min(scroll_offset, max(0, length' - height')), a selection >= length'
\* becomes length' - 1 (0 on an empty list), and the window clamp is applied
\* to the two.
C8_Resize ==
    [][(last_op' \in {"refresh", "draw"} /\ pcM' = "events" /\ overflow_checks
        /\ visible_height >= 1 /\ visible_height' >= 1
        /\ scroll_offset <= selected_process) =>
          LET len == Len(processes')
              height == visible_height'
              s1 == Min(scroll_offset, Max(0, len - height))
              sel1 == IF selected_process >= len THEN Max(len - 1, 0)
                      ELSE selected_process
              s2 == IF sel1 < s1 THEN sel1
                    ELSE IF sel1 >= s1 + height THEN sel1 - height + 1
                    ELSE s1
          IN  selected_process' = sel1 /\ scroll_offset' = s2]_vars

\* C9: a refresh that finds the process set of the previous refresh produces
\* the list the previous refresh produced.
C9_RefreshDeterministic ==
    (pcS = "replace" /\ Range(processes) = Range(prev_processes)) =>
        processes = prev_processes

\* C10: the sort leaves the list in descending order of memory, as a
\* permutation of the fetched list that keeps records of equal memory in
\* their fetched order.
C10_SortStableDescending ==
    [][pcS = "sort" =>
          /\ SortedByMemoryDesc(processes')
          /\ StablePermutation(processes, processes')]_vars

\* A refresh has just sorted its fetched list into a list of three in which
\* two records of equal memory stand in descending pid order (so in their
\* fetched order, not in pid order) behind a larger one.
C10_Witness ==
    /\ pcS = "replace"
    /\ last_op = "sort"
    /\ Len(processes) = 3
    /\ processes[1].memory_mb > processes[2].memory_mb
    /\ processes[2].memory_mb = processes[3].memory_mb
    /\ processes[2].pid > processes[3].pid

\* The value the last refresh appended to a history.
Last(h) == h[Len(h)]

\* C11: with total_swap = 0 the swap percent is 0 whatever used_swap is:
\* current_swap_percent() is 0, and a refresh completes and appends 0 to the
\* swap history.
C11_SwapPercentZero ==
    memory_info.total_swap = 0 =>
        /\ current_swap_percent(memory_info) = F32(0)
        /\ mem_updates > 0 =>
              /\ Len(memory_info.swap_history) = mem_updates
              /\ Last(memory_info.swap_history) = F32(0)

\* A refresh has read total_swap = 0 together with a used_swap above 0.
C11_Witness ==
    /\ mem_updates > 0
    /\ memory_info.total_swap = 0
    /\ memory_info.used_swap > 0
    /\ Len(memory_info.swap_history) = mem_updates

\* C12: after a refresh that read total memory = 0 the memory percent is 0:
\* the refresh appended 0 to the memory history and current_memory_percent()
\* is 0.
C12_MemoryPercentZero ==
    (mem_updates > 0 /\ memory_info.total_memory = 0) =>
        /\ Last(memory_info.memory_history) = F32(0)
        /\ current_memory_percent(memory_info) = F32(0)

\* C19: after a refresh (of a total above 0), current_memory_percent() and the
\* percent memory_usage_text shows both equal the percent the refresh
\* appended to the memory history.
C19_SingleMemoryPercent ==
    (mem_updates > 0 /\ memory_info.total_memory > 0) =>
        /\ current_memory_percent(memory_info) = Last(memory_info.memory_history)
        /\ memory_usage_percent(memory_info) = Last(memory_info.memory_history)

\* C13: once the lock is poisoned the failure is fatal: the lock is never
\* held again, the shared state is never changed again, the main thread is
\* on its way out of the process and the sampler is outside every critical
\* section.
C13_PoisonIsFatal ==
    [][poisoned' =>
          /\ lock' = "none"
          /\ pcM' \in {"panicking", "panicked"}
          /\ pcS' \in {"loop", "cpu_lock", "sleep", "panicked"}
          /\ poisoned => UNCHANGED <<processes, cursorVars, cpu_info>>]_vars

\* The render panicked under the lock, and the sampler's next lock().unwrap()
\* panicked in turn.
C13_Witness ==
    /\ poisoned
    /\ pcS = "panicked"
    /\ pcM \in {"panicking", "panicked"}

\* C14: from program start, eventually the sampler thread has been spawned on
\* a shared state with selected = 0 and scroll_offset = 0, and the foreground
\* loop is rendering it.
C14_StartupReachesRender ==
    <>(/\ pcS # "unspawned"
       /\ pcM = "render"
       /\ selected_process = 0
       /\ scroll_offset = 0)

\* C15: the re-clamp is idempotent: applied once more, for the same list
\* length and the same height, to the scroll offset it has just produced, it
\* produces that scroll offset again (the selection it never writes).
C15_ReclampIdempotent ==
    (last_op = "render" /\ pcM = "render" /\ max_items >= 0) =>
        AdjustedScroll(selected_process,
                       RenderScroll(adjusted_scroll, Len(processes), max_items),
                       max_items) = adjusted_scroll

\* C15, for a window of at least one row: the re-clamp, applied once more
\* for the same list length and the same height to the scroll offset it has
\* just produced, produces that scroll offset again.
C15_ReclampIdempotentFromOne ==
    (last_op = "render" /\ pcM = "render" /\ max_items >= 1) =>
        AdjustedScroll(selected_process,
                       RenderScroll(adjusted_scroll, Len(processes), max_items),
                       max_items) = adjusted_scroll

\* The re-clamp has moved the window of two rows down to a selection that
\* lay below it.
C15_Witness ==
    /\ last_op = "render"
    /\ pcM = "render"
    /\ max_items = 2
    /\ Len(processes) = 4
    /\ selected_process = 3
    /\ scroll_offset = 0
    /\ adjusted_scroll = 2

\* C18: no step of the cursor computations panics on an underflow, and no
\* draw leaves a wrapped-around visible height behind.
C18_NoUnderflow ==
    [][/\ pcM' # "panicking"
       /\ last_op' = "draw" => visible_height' >= 0]_vars

\* C16: no thread holds the lock at a suspension point: the main thread not
\* while it polls for events or sleeps, the sampler neither in its pacing
\* sleep nor in any other sleep.
C16_NoLockAcrossSuspension ==
    /\ pcM = "events" => lock # "main"
    /\ pcS \in {"sleep", "cpu_settle"} => lock # "sampler"

\* C17: the usages an update appends come from the long-lived handle made at
\* construction, as the difference between two of its counter reads that lie
\* at least the settle interval apart.
C17_DeltaOnLongLivedHandle ==
    pcS = "cpu_global" =>
        /\ system.id = 0
        /\ Len(system.reads) >= 2
        /\ system.reads[Len(system.reads)] - system.reads[Len(system.reads) - 1] >= SettleMs

\* C20: the current global and per-core usages and every value of the global
\* and per-core histories lie in [0, 100].
C20_UsageWithinPercent ==
    /\ cpu_info.global_usage \in 0..100
    /\ \A v \in Range(cpu_info.history) : v \in 0..100
    /\ \A k \in 1..Len(cpu_info.cores) :
          /\ cpu_info.cores[k].usage \in 0..100
          /\ \A v \in Range(cpu_info.cores[k].history) : v \in 0..100

\* C21: an iteration of the sampler refreshes and sorts the process table
\* once, at its start; after the sort a CPU refresh follows if and only if at
\* least 1000 ms have passed since the iteration of the previous CPU refresh
\* began (since the thread's start before the first one); and the iteration
\* ends, through the pacing sleep, only after that.
C21_IterationCadence ==
    [][/\ pcS' = "replace" => pcS = "loop"
       /\ pcS' = "sort" => pcS = "replace"
       /\ pcS = "sort" =>
             /\ pcS' \in {"cpu_lock", "sleep"}
             /\ pcS' = "cpu_lock" <=> clock - last_cpu_update >= cpu_update_interval
       /\ pcS' = "cpu_lock" => pcS = "sort"
       /\ pcS' = "cpu_settle" => pcS = "cpu_lock"
       /\ pcS' = "sleep" => pcS \in {"sort", "cpu_settle"}
       /\ pcS' = "loop" => pcS = "sleep"
       /\ cpu_updates' # cpu_updates => (pcS = "cpu_settle" /\ last_cpu_update' = now)]_vars

\* The second CPU refresh has run, in an iteration that began 1000 ms or more
\* after the iteration of the first.
C21_Witness ==
    /\ cpu_updates = 2
    /\ pcS = "sleep"
    /\ last_op = "cpu_update"
    /\ last_cpu_update >= 2 * cpu_update_interval

\* C22: no step of a CPU refresh changes the number of cores or the name at
\* an index, whatever number of cpus the OS reports; the round for cpu i
\* writes no entry but the one at index i, and no other step writes any.
C22_CoreTableFixed ==
    [][/\ Len(cpu_info'.cores) = NumCores
       /\ \A k \in 1..NumCores :
             cpu_info'.cores[k].name = CpuInfoNew(NumCores).cores[k].name
       /\ pcS = "cpu_cores" =>
             \A k \in 1..NumCores :
                k # core_i + 1 => cpu_info'.cores[k] = cpu_info.cores[k]
       /\ pcS # "cpu_cores" => cpu_info'.cores = cpu_info.cores]_vars

\* Two refreshes are complete, the second on a System that reported a cpu
\* less than at startup: the first core has two samples, the last core only
\* the one of the first refresh.
C22_Witness ==
    /\ cpu_updates = 2
    /\ pcS = "cpu_settle"
    /\ Len(system.cpus) = NumCores - 1
    /\ Len(cpu_info.cores[1].history) = 2
    /\ Len(cpu_info.cores[NumCores].history) = 1

\* C23: with a fair lock the foreground loop is never stuck: a lock() it has
\* called returns the guard; unless a quit ends the loop, it renders again
\* and again and the sampler starts iteration after iteration.
C23_ForegroundLive ==
    /\ (pcM \in {"want_down", "want_up", "want_render"}) ~> (pcM \in {"down", "up", "render"})
    /\ []<>(pcM = "render") \/ <>(pcM = "done")
    /\ []<>(pcS = "replace") \/ <>(pcM = "done")

\* C24: the foreground loop ends normally through a quit key and nothing
\* else: a quit that has been read ends the loop; the step that ends it
\* follows a quit, is made without the lock and leaves the shared state as it
\* was; and once the loop has ended nothing moves any more.
C24_QuitOnlyExit ==
    /\ (pcM = "quitting") ~> (pcM = "done")
    /\ [][/\ (pcM' = "quitting" /\ pcM # "quitting") =>
               /\ pcM = "events"
               /\ last_op' = "quit"
               /\ lock' # "main"
               /\ UNCHANGED <<processes, cursorVars, cpu_info, lock>>
          /\ (pcM' = "done" /\ pcM # "done") =>
               /\ pcM = "quitting"
               /\ lock' # "main"
               /\ UNCHANGED <<processes, cursorVars, cpu_info, lock>>
          /\ pcM = "done" => UNCHANGED vars]_vars

\* The loop has ended on a quit key that followed a Down key: the selection
\* has moved, the lock is free, the sampler was in the middle of its work.
C24_Witness ==
    /\ pcM = "done"
    /\ last_op = "quit"
    /\ selected_process = 1
    /\ lock = "sampler"

====
